---- MODULE Spec2Model ----
(***************************************************************************)
(* A model of the technology class of objects/technologies/source/         *)
(* technology.cpp: one vintage of one technology choice inside a           *)
(* subsector.  The subsector holds a few technology objects and drives     *)
(* their cost -> share -> production cycle; the marketplace (ledger) and   *)
(* the log are the collaborators the methods read and write.               *)
(*                                                                         *)
(* C++ doubles are modelled as exact rationals [n, d] in lowest terms,     *)
(* extended with the three IEEE specials a division by zero produces:      *)
(* +inf = [1,0], -inf = [-1,0] and NaN = [0,0].  Exponents of pow() are     *)
(* integers.  Rounding, overflow and underflow of doubles are not          *)
(* modelled.                                                               *)
(***************************************************************************)
EXTENDS Integers, Sequences, FiniteSets, TLC

VARIABLES
    techs,        \* the technology objects of the subsector, by index
    marketplace,  \* the ledger: price and demand per fuel name
    log,          \* the messages the last operation wrote to main_log
    calls,        \* the marketplace calls the last operation made, in order
    last,         \* the last operation: its name, target, arguments, pre-state
    pc            \* where the driving subsector is in its cycle

vars == <<techs, marketplace, log, calls, last, pc>>

----------------------------------------------------------------------------
(* Rational arithmetic with IEEE specials.                                 *)

Abs(x) == IF x < 0 THEN -x ELSE x

Sgn(x) == IF x > 0 THEN 1 ELSE IF x < 0 THEN -1 ELSE 0

RECURSIVE GCD(_, _)
GCD(a, b) == IF b = 0 THEN a ELSE GCD(b, a % b)

\* n/d in lowest terms with a positive denominator (d # 0).
R(n, d) ==
    LET g == GCD(Abs(n), Abs(d))
        s == Sgn(d)
    IN  [n |-> (s * n) \div g, d |-> (s * d) \div g]

Zero == [n |-> 0, d |-> 1]

One == [n |-> 1, d |-> 1]

NaN == [n |-> 0, d |-> 0]

PInf == [n |-> 1, d |-> 0]

IsNaN(a) == a.d = 0 /\ a.n = 0

IsFinite(a) == a.d > 0

RNeg(a) == [n |-> -a.n, d |-> a.d]

RAdd(a, b) ==
    IF IsNaN(a) \/ IsNaN(b) THEN NaN
    ELSE IF a.d = 0 /\ b.d = 0 THEN (IF a.n = b.n THEN a ELSE NaN)
    ELSE IF a.d = 0 THEN a
    ELSE IF b.d = 0 THEN b
    ELSE LET g == GCD(a.d, b.d)
         IN  R(a.n * (b.d \div g) + b.n * (a.d \div g), (a.d \div g) * b.d)

RSub(a, b) == RAdd(a, RNeg(b))

RMul(a, b) ==
    IF a.d = 0 \/ b.d = 0 THEN [n |-> Sgn(a.n) * Sgn(b.n), d |-> 0]
    ELSE LET g1 == GCD(Abs(a.n), b.d)
             g2 == GCD(Abs(b.n), a.d)
         IN  [n |-> (a.n \div g1) * (b.n \div g2),
              d |-> (a.d \div g2) * (b.d \div g1)]

\* 1/a: 1/0 is +inf, 1/inf is 0, 1/NaN is NaN.
RInv(a) ==
    IF a.d = 0 THEN (IF a.n = 0 THEN NaN ELSE Zero)
    ELSE IF a.n = 0 THEN PInf
    ELSE R(a.d, a.n)

RDiv(a, b) == RMul(a, RInv(b))

\* a < b; every comparison with NaN is false.
RLt(a, b) ==
    IF IsNaN(a) \/ IsNaN(b) THEN FALSE
    ELSE IF a.d = 0 /\ b.d = 0 THEN a.n < b.n
    ELSE IF a.d = 0 THEN a.n < 0
    ELSE IF b.d = 0 THEN b.n > 0
    ELSE LET g == GCD(a.d, b.d)
         IN  a.n * (b.d \div g) < b.n * (a.d \div g)

\* a == b of doubles: NaN equals nothing.
REq(a, b) == ~IsNaN(a) /\ ~IsNaN(b) /\ a = b

RLe(a, b) == RLt(a, b) \/ REq(a, b)

\* std::max(a, b): (a < b) ? b : a.
RMax(a, b) == IF RLt(a, b) THEN b ELSE a

\* pow(x, k) for an integer exponent k.
RECURSIVE RPow(_, _)
RPow(x, k) ==
    IF k = 0 THEN One
    ELSE IF k < 0 THEN RInv(RPow(x, -k))
    ELSE RMul(x, RPow(x, k - 1))

----------------------------------------------------------------------------
(* Collaborators' constants.  util.h, marketplace.h and model_time.h are   *)
(* not among the sources; the values below follow the specification's      *)
(* wording ("small positive epsilon", "very large finite number", a        *)
(* sentinel price) at a scale that keeps powers inside TLC's integers.     *)

\* util::getSmallNumber(): the floor of techcost.
getSmallNumber == R(1, 1000)

\* util::getLargeNumber(): the price substituted for a missing one.
getLargeNumber == R(1000, 1)

\* Marketplace::NO_MARKET_PRICE: what getPrice returns for a fuel with no price.
NO_MARKET_PRICE == R(-1, 1)

\* Modeltime::getper_to_yr: the calendar year of a model period.
getper_to_yr(aPeriod) == 1990 + 15 * aPeriod

\* technology::getFixedOutputDefault(): no fixed supply.
getFixedOutputDefault == R(-1, 1)

LOGIT_EXP_DEFAULT == -6

----------------------------------------------------------------------------
(* Bounds of the model.                                                    *)

\* The subsector holds technologies 1..NumTechs.
NumTechs == 2

\* Model periods are 0..MaxPeriod.
MaxPeriod == 1

Techs == 1..NumTechs

Periods == 0..MaxPeriod

\* The fuel names a technology may carry; "coal" stands for a priced fuel.
FuelNames == {"", "none", "renewable", "coal"}

----------------------------------------------------------------------------
(* The calibration value object (ICalData), the emission sources (AGHG)    *)
(* and the output channels (IOutput) are collaborators; they are modelled  *)
(* by the values their methods return.                                     *)

\* mCalValue.get() == 0: no calibration object.
NoCal == [kind |-> "none", value |-> Zero]

\* ICalData::getCalInput( efficiency )
getCalInput(cal, eff) ==
    IF cal.kind = "input" THEN cal.value ELSE RDiv(cal.value, eff)

\* ICalData::getCalOutput( efficiency )
getCalOutput(cal, eff) ==
    IF cal.kind = "output" THEN cal.value ELSE RMul(cal.value, eff)

\* Sum of f[1..Len(f)] for a sequence of rationals.
RECURSIVE RSum(_)
RSum(seq) == IF seq = <<>> THEN Zero ELSE RAdd(Head(seq), RSum(Tail(seq)))

\* The primary output channel created by completeInit.
PrimaryOutput ==
    [kind |-> "primary", value |-> Zero, ratio |-> One, physicalOutput |-> Zero]

\* The CO2 emission source created by completeInit when none was parsed.
CO2Emissions ==
    [name |-> "CO2", ghgValue |-> Zero, coef |-> One, emission |-> Zero]

----------------------------------------------------------------------------
(* technology: accessors.                                                  *)

\* Fault model: the efficiency penalty is ignored.
getEfficiencyNoPenalty(t) == t.mTechData.efficiency

\* technology::getEfficiency
getEfficiency(t) ==
    RMul(t.mTechData.efficiency, RSub(One, t.mTechData.effPenalty))

\* technology::getNonEnergyCost
getNonEnergyCost(t) ==
    RMul(t.mTechData.nonEnergyCost, RAdd(One, t.mTechData.neCostPenalty))

\* technology::getFuelName
getFuelName(t) == t.mTechData.fuelName

\* technology::getCalibrationStatus
getCalibrationStatus(t) == t.mCalValue # NoCal

\* technology::getCalibrationOutput
getCalibrationOutput(t, aPeriod) ==
    IF getCalibrationStatus(t) /\ t.year = getper_to_yr(aPeriod)
    THEN getCalOutput(t.mCalValue, getEfficiency(t))
    ELSE Zero

\* technology::getCalibrationInput
getCalibrationInput(t, aPeriod) ==
    IF getCalibrationStatus(t) /\ t.year = getper_to_yr(aPeriod)
    THEN getCalInput(t.mCalValue, getEfficiency(t))
    ELSE Zero

\* technology::hasNoInputOrOutput
hasNoInputOrOutput(t) == REq(t.fixedOutput, Zero)

\* technology::getFixedOutput
getFixedOutput(t) ==
    IF REq(t.fixedOutputVal, getFixedOutputDefault) THEN Zero ELSE t.fixedOutputVal

\* Fault model: the period's year is not compared with the vintage year.
getFixedInputAnyYear(t, aPeriod) ==
    IF REq(t.fixedOutputVal, getFixedOutputDefault) THEN Zero
    ELSE RDiv(t.fixedOutputVal, getEfficiency(t))

\* technology::getFixedInput
getFixedInput(t, aPeriod) ==
    IF REq(t.fixedOutputVal, getFixedOutputDefault) \/ t.year # getper_to_yr(aPeriod)
    THEN Zero
    ELSE RDiv(t.fixedOutputVal, getEfficiency(t))

\* technology::getTotalGHGCost
getTotalGHGCost(t) ==
    RSum([k \in 1..Len(t.ghg) |-> t.ghg[k].ghgValue])

\* technology::calcSecondaryValue: output values minus GHG costs.
calcSecondaryValue(t) ==
    RAdd(RNeg(RSum([k \in 1..Len(t.ghg) |-> t.ghg[k].ghgValue])),
         RSum([k \in 1..Len(t.mOutputs) |-> t.mOutputs[k].value]))

----------------------------------------------------------------------------
(* technology::calcCost                                                    *)

\* Fault model: only "none" and the empty name count as unpriced.
calcCostNoFuelNotRenewable(t) ==
    getFuelName(t) = "none" \/ getFuelName(t) = ""

\* Whether calcCost treats the fuel as unpriced.
calcCostNoFuel(t) ==
    (getFuelName(t) = "none" \/ getFuelName(t) = "") \/ getFuelName(t) = "renewable"

\* Marketplace::getPrice
getPrice(mp, fuel) == mp.price[fuel]

\* Fault model: the sentinel is used as the price.
calcCostFuelPriceNoSubstitute(t, mp) ==
    IF getFuelName(t) \in {"none", "", "renewable"} THEN Zero
    ELSE mp.price[getFuelName(t)]

\* The local fuelprice of calcCost at the point the costs are computed.
calcCostFuelPrice(t, mp) ==
    IF calcCostNoFuel(t) THEN Zero
    ELSE IF REq(getPrice(mp, getFuelName(t)), NO_MARKET_PRICE) THEN getLargeNumber
    ELSE getPrice(mp, getFuelName(t))

\* The marketplace calls of calcCost.
calcCostCalls(t, mp) ==
    IF calcCostNoFuel(t) THEN <<>> ELSE << <<"getPrice", getFuelName(t)>> >>

\* The messages of calcCost.
calcCostLog(t, mp) ==
    IF ~calcCostNoFuel(t) /\ REq(getPrice(mp, getFuelName(t)), NO_MARKET_PRICE)
    THEN {"ERROR: fuel with no price"}
    ELSE {}

\* techcost before the floor is applied.
calcCostUnfloored(t, fuelcost) ==
    RSub(RMul(RAdd(fuelcost, getNonEnergyCost(t)), t.pMultiplier),
         calcSecondaryValue(t))

\* Fault model: techcost is not floored.
calcCostNoFloor(t, mp) ==
    LET fuelprice == calcCostFuelPrice(t, mp)
        fuelcost == RDiv(RMul(fuelprice, t.mTechData.fMultiplier), getEfficiency(t))
    IN  [t EXCEPT !.fuelcost = fuelcost,
                  !.techcost = calcCostUnfloored(t, fuelcost)]

\* The technology after calcCost.
calcCost(t, mp) ==
    LET fuelprice == calcCostFuelPrice(t, mp)
        fuelcost == RDiv(RMul(fuelprice, t.mTechData.fMultiplier), getEfficiency(t))
    IN  [t EXCEPT !.fuelcost = fuelcost,
                  !.techcost = RMax(calcCostUnfloored(t, fuelcost), getSmallNumber)]

----------------------------------------------------------------------------
(* technology::calcShare and technology::normShare                         *)

\* Fault model: the cost is raised to the negated exponent.
calcShareNegatedExponent(t, aGDP) ==
    LET share == RMul(t.shrwts, RPow(t.techcost, -t.lexp))
    IN  [t EXCEPT !.share =
            IF t.mTechData.fuelPrefElasticity # 0
            THEN RMul(share, RPow(aGDP, t.mTechData.fuelPrefElasticity))
            ELSE share]

\* The share after calcShare; aGDP is GDP::getBestScaledGDPperCap( aPeriod ).
calcShare(t, aGDP) ==
    LET share == RMul(t.shrwts, RPow(t.techcost, t.lexp))
    IN  [t EXCEPT !.share =
            IF t.mTechData.fuelPrefElasticity # 0
            THEN RMul(share, RPow(aGDP, t.mTechData.fuelPrefElasticity))
            ELSE share]

\* Fault model: the share is divided by the sum whatever the sum is.
normShareUnguarded(t, sum) == [t EXCEPT !.share = RDiv(t.share, sum)]

\* The technology after normShare( sum ).
normShare(t, sum) ==
    [t EXCEPT !.share = IF REq(sum, Zero) THEN Zero ELSE RDiv(t.share, sum)]

----------------------------------------------------------------------------
(* Fixed output.                                                           *)

\* Fault model: the scaled working value is kept.
resetFixedOutputKeepsScaling(t) == t

\* The technology after resetFixedOutput.
resetFixedOutput(t) ==
    IF RLe(Zero, t.fixedOutput) THEN [t EXCEPT !.fixedOutputVal = t.fixedOutput] ELSE t

\* Fault model: the working value is scaled whether or not it is set.
scaleFixedOutputUnguarded(t, scaleRatio) ==
    [t EXCEPT !.fixedOutputVal = RMul(t.fixedOutputVal, scaleRatio)]

\* The technology after scaleFixedOutput( scaleRatio ).
scaleFixedOutput(t, scaleRatio) ==
    IF RLe(Zero, t.fixedOutputVal)
    THEN [t EXCEPT !.fixedOutputVal = RMul(t.fixedOutputVal, scaleRatio)]
    ELSE t

\* The local remainingDemand of adjShares (inside subsecfixedOutput > 0).
adjSharesRemainingDemand(subsecdmd, subsecfixedOutput) ==
    IF RLt(RSub(subsecdmd, subsecfixedOutput), Zero)
    THEN Zero
    ELSE RSub(subsecdmd, subsecfixedOutput)

\* Fault model: a variable share is not divided by the variable share total.
adjSharesNoVarTotal(t, subsecdmd, subsecfixedOutput, varShareTot) ==
    IF ~RLt(Zero, subsecfixedOutput) THEN t
    ELSE IF RLe(Zero, t.fixedOutputVal)
    THEN IF RLt(Zero, subsecdmd)
         THEN [t EXCEPT !.share = RDiv(t.fixedOutputVal, subsecdmd),
                        !.fixedOutputVal =
                            IF RLt(subsecdmd, t.fixedOutputVal)
                            THEN subsecfixedOutput
                            ELSE t.fixedOutputVal]
         ELSE [t EXCEPT !.share = Zero]
    ELSE IF RLt(Zero, subsecdmd)
         THEN [t EXCEPT !.share =
                  RMul(t.share,
                       RDiv(adjSharesRemainingDemand(subsecdmd, subsecfixedOutput),
                            subsecdmd))]
         ELSE [t EXCEPT !.share = Zero]

\* The technology after adjShares( subsecdmd, subsecfixedOutput, varShareTot ).
adjShares(t, subsecdmd, subsecfixedOutput, varShareTot) ==
    IF ~RLt(Zero, subsecfixedOutput) THEN t
    ELSE IF RLe(Zero, t.fixedOutputVal)
    THEN \* this technology has a fixed supply
         IF RLt(Zero, subsecdmd)
         THEN [t EXCEPT !.share = RDiv(t.fixedOutputVal, subsecdmd),
                        !.fixedOutputVal =
                            IF RLt(subsecdmd, t.fixedOutputVal)
                            THEN subsecfixedOutput
                            ELSE t.fixedOutputVal]
         ELSE [t EXCEPT !.share = Zero]
    ELSE \* this technology has no fixed supply
         IF RLt(Zero, subsecdmd)
         THEN [t EXCEPT !.share =
                  RDiv(RMul(t.share,
                            RDiv(adjSharesRemainingDemand(subsecdmd, subsecfixedOutput),
                                 subsecdmd)),
                       varShareTot)]
         ELSE [t EXCEPT !.share = Zero]

----------------------------------------------------------------------------
(* technology::production and technology::calcEmissionsAndOutputs          *)

\* Whether production registers the fuel input as demand.
productionAddsDemand(t) ==
    (getFuelName(t) # "renewable")
        /\ ((getFuelName(t) # "none") \/ getFuelName(t) = "")

\* The marketplace calls of production.
productionCalls(t, aDemand) ==
    IF productionAddsDemand(t)
    THEN << <<"addToDemand", getFuelName(t),
              RDiv(RMul(t.share, aDemand), getEfficiency(t))>> >>
    ELSE <<>>

\* The messages of production.
productionLog(t, aDemand) ==
    IF RLt(RMul(t.share, aDemand), Zero)
    THEN {"ERROR: primary output less than zero"}
    ELSE {}

\* Marketplace::addToDemand
addToDemand(mp, fuel, qty) ==
    [mp EXCEPT !.demand[fuel] = RAdd(@, qty)]

\* The marketplace after production.
productionMarket(t, mp, aDemand) ==
    IF productionAddsDemand(t)
    THEN addToDemand(mp, getFuelName(t),
                     RDiv(RMul(t.share, aDemand), getEfficiency(t)))
    ELSE mp

\* The technology after calcEmissionsAndOutputs: every output channel gets its
\* physical output, every emission source its emission.
calcEmissionsAndOutputs(t, aInput, aPrimaryOutput) ==
    [t EXCEPT !.mOutputs = [k \in 1..Len(t.mOutputs) |->
                               [t.mOutputs[k] EXCEPT !.physicalOutput =
                                   RMul(aPrimaryOutput, t.mOutputs[k].ratio)]],
              !.ghg = [k \in 1..Len(t.ghg) |->
                          [t.ghg[k] EXCEPT !.emission = RMul(aInput, t.ghg[k].coef)]]]

\* Fault model: the fuel input accumulates over calls.
productionAccumulatesInput(t, aDemand) ==
    LET primaryOutput == RMul(t.share, aDemand)
        input == RAdd(t.input, RDiv(primaryOutput, getEfficiency(t)))
    IN  calcEmissionsAndOutputs([t EXCEPT !.input = input], input, primaryOutput)

\* The technology after production( aDemand ).
production(t, aDemand) ==
    LET primaryOutput == RMul(t.share, aDemand)
        input == RDiv(primaryOutput, getEfficiency(t))
    IN  calcEmissionsAndOutputs([t EXCEPT !.input = input], input, primaryOutput)

\* technology::getOutput: the primary output is at position zero.
getOutput(t) == t.mOutputs[1].physicalOutput

----------------------------------------------------------------------------
(* technology::adjustForCalibration                                        *)

\* Fault model: a zero share weight is not bumped.
adjustForCalibrationNoBump(t, calOutput) == t.shrwts

\* shrwts after the zero-weight bump.
adjustForCalibrationBump(t, calOutput) ==
    IF REq(t.shrwts, Zero) /\ RLt(Zero, calOutput) THEN One ELSE t.shrwts

\* Fault model: the weight is scaled by calOutput / subSectorDemand, without
\* the technology's share.
adjustForCalibrationScaleByDemand(t, subSectorDemand, calOutput) ==
    LET shrwts == adjustForCalibrationBump(t, calOutput)
        technologyDemand == RMul(t.share, subSectorDemand)
    IN  IF RLt(Zero, technologyDemand)
        THEN RMul(shrwts, RDiv(calOutput, subSectorDemand))
        ELSE shrwts

\* shrwts after the scale step.
adjustForCalibrationScale(t, subSectorDemand, calOutput) ==
    LET shrwts == adjustForCalibrationBump(t, calOutput)
        technologyDemand == RMul(t.share, subSectorDemand)
    IN  IF RLt(Zero, technologyDemand)
        THEN RMul(shrwts, RDiv(calOutput, technologyDemand))
        ELSE shrwts

\* The messages of adjustForCalibration (debugChecking off).
adjustForCalibrationLog(t, subSectorDemand, period) ==
    IF RLt(adjustForCalibrationScale(t, subSectorDemand,
                                     getCalibrationOutput(t, period)), Zero)
    THEN {"WARNING: share weight less than zero"}
    ELSE {}

\* Fault model: a negative share weight is kept.
adjustForCalibrationNoReset(t, subSectorDemand, period) ==
    [t EXCEPT !.shrwts = adjustForCalibrationScale(t, subSectorDemand,
                                                   getCalibrationOutput(t, period))]

\* The technology after adjustForCalibration( subSectorDemand, period ).
adjustForCalibration(t, subSectorDemand, period) ==
    LET shrwts == adjustForCalibrationScale(t, subSectorDemand,
                                            getCalibrationOutput(t, period))
    IN  [t EXCEPT !.shrwts = IF RLt(shrwts, Zero) THEN One ELSE shrwts]

----------------------------------------------------------------------------
(* technology::completeInit and technology::initCalc                       *)

\* Fault model: the name map is not consulted.
hasCO2Never(t) == FALSE

\* util::hasValue( ghgNameMap, CO2Emissions::getXMLNameStatic() )
hasCO2(t) == \E e \in t.ghgNameMap : e[1] = "CO2"

\* The messages of completeInit.
completeInitLog(t) ==
    IF t.year = 0 THEN {"ERROR: invalid year attribute"} ELSE {}

\* The technology after completeInit.
completeInit(t) ==
    [t EXCEPT !.ghg = IF hasCO2(t) THEN t.ghg ELSE Append(t.ghg, CO2Emissions),
              !.ghgNameMap = IF hasCO2(t) THEN t.ghgNameMap
                             ELSE t.ghgNameMap \cup {<<"CO2", Len(t.ghg)>>},
              !.mOutputs = <<PrimaryOutput>> \o t.mOutputs,
              !.fixedOutputVal =
                  IF RLe(Zero, t.fixedOutput) THEN t.fixedOutput ELSE t.fixedOutputVal]

\* The messages of initCalc.
initCalcLog(t) ==
    IF getCalibrationStatus(t) /\ RLt(getCalInput(t.mCalValue, getEfficiency(t)), Zero)
    THEN {"DEBUG: negative calibration value, calibration removed"}
    ELSE {}

\* Fault model: the required input is computed at the efficiency without its
\* penalty.
initCalcNoPenalty(t) ==
    IF getCalibrationStatus(t)
       /\ RLt(getCalInput(t.mCalValue, getEfficiencyNoPenalty(t)), Zero)
    THEN [t EXCEPT !.mCalValue = NoCal]
    ELSE t

\* The technology after initCalc.
initCalc(t) ==
    IF getCalibrationStatus(t) /\ RLt(getCalInput(t.mCalValue, getEfficiency(t)), Zero)
    THEN [t EXCEPT !.mCalValue = NoCal]
    ELSE t

----------------------------------------------------------------------------
(* The technology object after construction and XMLParse.                  *)

\* technology::initElementalMembers, with mTechData holding the defaults of
\* a GenericTechnologyInfo and the year of the constructor.  The maps
\* ghgNameMap (gas name to index in ghg), emissmap and emfuelmap are sets of
\* <<key, value>> pairs and start empty.  deleted counts the leading
\* pointers of ghg and mOutputs whose objects clear() has deleted.
initElementalMembers(aYear) ==
    [year |-> aYear,
     shrwts |-> One,
     fuelcost |-> Zero,
     techcost |-> Zero,
     pMultiplier |-> One,
     lexp |-> LOGIT_EXP_DEFAULT,
     share |-> Zero,
     input |-> Zero,
     fixedOutput |-> getFixedOutputDefault,
     fixedOutputVal |-> getFixedOutputDefault,
     mTechData |-> [fuelName |-> "", efficiency |-> One, effPenalty |-> Zero,
                    nonEnergyCost |-> Zero, neCostPenalty |-> Zero,
                    fMultiplier |-> One, fuelPrefElasticity |-> 0],
     mCalValue |-> NoCal,
     ghg |-> <<>>,
     ghgNameMap |-> {},
     mOutputs |-> <<>>,
     emissmap |-> {},
     emfuelmap |-> {},
     deleted |-> [ghg |-> 0, mOutputs |-> 0]]

\* technology::XMLParse of one child node: a fuelname node, or a GHG node
\* carrying the emission source it describes.  parseContainerNode parses a
\* GHG node into the source ghgNameMap holds under its name, or else appends
\* a new source and enters it in ghgNameMap.
XMLParse(t, node) ==
    IF node.nodeName = "fuelname"
    THEN [t EXCEPT !.mTechData = [@ EXCEPT !.fuelName = node.value]]
    ELSE IF \E e \in t.ghgNameMap : e[1] = node.value.name
    THEN LET e == CHOOSE e \in t.ghgNameMap : e[1] = node.value.name
         IN  [t EXCEPT !.ghg = [@ EXCEPT ![e[2] + 1] = node.value]]
    ELSE [t EXCEPT !.ghg = Append(@, node.value),
                   !.ghgNameMap = @ \cup {<<node.value.name, Len(t.ghg)>>}]

----------------------------------------------------------------------------
(* technology::calcEmission                                                *)

\* map[ key ] = value on a std::map held as a set of pairs.
MapPut(map, key, value) == {e \in map : e[1] # key} \cup {<<key, value>>}

\* The loop of calcEmission from emission source i on.  getEmission and
\* getEmissFuel return the source's emission; nothing is sequestered.
RECURSIVE calcEmissionLoop(_, _)
calcEmissionLoop(t, i) ==
    IF i > Len(t.ghg) THEN t
    ELSE LET name == t.ghg[i].name
             fuel == getFuelName(t)
             byName == MapPut(t.emissmap, name, t.ghg[i].emission)
             byFuel == MapPut(byName, name \o fuel, t.ghg[i].emission)
             geologic == MapPut(byFuel, name \o "sequestGeologic", Zero)
             nonEngy == MapPut(geologic, name \o "sequestNonEngy", Zero)
         IN  calcEmissionLoop(
                 [t EXCEPT !.emissmap = nonEngy,
                           !.emfuelmap = MapPut(@, fuel, t.ghg[i].emission)],
                 i + 1)

\* Fault model: the maps are not cleared before they are filled.
calcEmissionNoClear(t) == calcEmissionLoop(t, 1)

\* The technology after calcEmission.
calcEmission(t) ==
    calcEmissionLoop([t EXCEPT !.emissmap = {}, !.emfuelmap = {}], 1)

----------------------------------------------------------------------------
(* technology::copy, clear, clone and the assignment operator              *)

\* Fault model: the share is not copied.
copyWithoutShare(this, techIn) ==
    [techIn EXCEPT !.share = this.share,
                   !.ghg = this.ghg \o techIn.ghg,
                   !.mOutputs = this.mOutputs \o techIn.mOutputs,
                   !.deleted = this.deleted]

\* technology::copy: every member is assigned from techIn, and clones of
\* techIn's emission sources and outputs are pushed onto the back of this
\* object's vectors.
copy(this, techIn) ==
    [year |-> techIn.year,
     shrwts |-> techIn.shrwts,
     fuelcost |-> techIn.fuelcost,
     techcost |-> techIn.techcost,
     pMultiplier |-> techIn.pMultiplier,
     lexp |-> techIn.lexp,
     share |-> techIn.share,
     input |-> techIn.input,
     fixedOutput |-> techIn.fixedOutput,
     fixedOutputVal |-> techIn.fixedOutputVal,
     emissmap |-> techIn.emissmap,
     emfuelmap |-> techIn.emfuelmap,
     ghgNameMap |-> techIn.ghgNameMap,
     mTechData |-> techIn.mTechData,
     mCalValue |-> techIn.mCalValue,
     ghg |-> this.ghg \o techIn.ghg,
     mOutputs |-> this.mOutputs \o techIn.mOutputs,
     deleted |-> this.deleted]

\* technology::clear: the emission sources and outputs are deleted; their
\* pointers stay in the vectors.
clear(t) ==
    [t EXCEPT !.deleted = [ghg |-> Len(t.ghg), mOutputs |-> Len(t.mOutputs)]]

\* technology::clone: the copy constructor copies into an object whose
\* vectors are empty.
clone(t) == copy(initElementalMembers(0), t)

\* technology::operator= from another object.
assign(this, techIn) == copy(clear(this), techIn)

\* technology::outputFixed
outputFixed(t) ==
    \/ getCalibrationStatus(t)
    \/ RLe(Zero, t.fixedOutput)
    \/ REq(t.shrwts, Zero)

\* The marketplace after tabulateFixedDemands( regionName, period ).  mp.info
\* holds the counters calDemand and calFixedDemand of every fuel that has a
\* market; getMarketInfo returns null for any other fuel.
tabulateFixedDemands(t, mp, period) ==
    LET MKT_NOT_ALL_FIXED == R(-1, 1)
        fuel == getFuelName(t)
        fixedOrCalInput ==
            IF getCalibrationStatus(t) THEN getCalibrationInput(t, period)
            ELSE IF RLe(Zero, t.fixedOutput) THEN getFixedInput(t, period)
            ELSE Zero
        fixedInput ==
            IF ~getCalibrationStatus(t) /\ RLe(Zero, t.fixedOutput)
            THEN fixedOrCalInput ELSE Zero
    IN  IF fuel \notin DOMAIN mp.info THEN mp
        ELSE IF outputFixed(t)
        THEN [mp EXCEPT
                 !.info[fuel].calDemand = RAdd(RMax(@, Zero), fixedOrCalInput),
                 !.info[fuel].calFixedDemand = RAdd(RMax(@, Zero), fixedInput)]
        ELSE [mp EXCEPT !.info[fuel].calDemand = MKT_NOT_ALL_FIXED]

\* A marketplace quoting the same price for every fuel name, with no demand.
NewMarketplace(price) ==
    [price |-> [f \in FuelNames |-> price], demand |-> [f \in FuelNames |-> Zero]]

----------------------------------------------------------------------------
(* The operations as actions on technology i.  Every action records itself *)
(* in last, its messages in log and its marketplace calls in calls.        *)

Record(op, i, args) ==
    last' = [op |-> op, i |-> i, pre |-> techs[i], args |-> args]

CompleteInit(i) ==
    /\ techs' = [techs EXCEPT ![i] = completeInit(techs[i])]
    /\ log' = completeInitLog(techs[i])
    /\ calls' = <<>>
    /\ Record("completeInit", i, <<>>)
    /\ UNCHANGED marketplace

InitCalc(i) ==
    /\ techs' = [techs EXCEPT ![i] = initCalc(techs[i])]
    /\ log' = initCalcLog(techs[i])
    /\ calls' = <<>>
    /\ Record("initCalc", i, <<>>)
    /\ UNCHANGED marketplace

CalcCost(i) ==
    /\ techs' = [techs EXCEPT ![i] = calcCost(techs[i], marketplace)]
    /\ log' = calcCostLog(techs[i], marketplace)
    /\ calls' = calcCostCalls(techs[i], marketplace)
    /\ Record("calcCost", i, <<>>)
    /\ UNCHANGED marketplace

CalcShare(i, aGDP) ==
    /\ techs' = [techs EXCEPT ![i] = calcShare(techs[i], aGDP)]
    /\ log' = {}
    /\ calls' = <<>>
    /\ Record("calcShare", i, [aGDP |-> aGDP])
    /\ UNCHANGED marketplace

NormShare(i, sum) ==
    /\ techs' = [techs EXCEPT ![i] = normShare(techs[i], sum)]
    /\ log' = {}
    /\ calls' = <<>>
    /\ Record("normShare", i, [sum |-> sum])
    /\ UNCHANGED marketplace

AdjShares(i, subsecdmd, subsecfixedOutput, varShareTot) ==
    /\ techs' = [techs EXCEPT ![i] =
                    adjShares(techs[i], subsecdmd, subsecfixedOutput, varShareTot)]
    /\ log' = {}
    /\ calls' = <<>>
    /\ Record("adjShares", i, [subsecdmd |-> subsecdmd,
                               subsecfixedOutput |-> subsecfixedOutput,
                               varShareTot |-> varShareTot])
    /\ UNCHANGED marketplace

AdjustForCalibration(i, subSectorDemand, period) ==
    /\ techs' = [techs EXCEPT ![i] =
                    adjustForCalibration(techs[i], subSectorDemand, period)]
    /\ log' = adjustForCalibrationLog(techs[i], subSectorDemand, period)
    /\ calls' = <<>>
    /\ Record("adjustForCalibration", i,
              [subSectorDemand |-> subSectorDemand, period |-> period])
    /\ UNCHANGED marketplace

ResetFixedOutput(i) ==
    /\ techs' = [techs EXCEPT ![i] = resetFixedOutput(techs[i])]
    /\ log' = {}
    /\ calls' = <<>>
    /\ Record("resetFixedOutput", i, <<>>)
    /\ UNCHANGED marketplace

ScaleFixedOutput(i, scaleRatio) ==
    /\ techs' = [techs EXCEPT ![i] = scaleFixedOutput(techs[i], scaleRatio)]
    /\ log' = {}
    /\ calls' = <<>>
    /\ Record("scaleFixedOutput", i, [scaleRatio |-> scaleRatio])
    /\ UNCHANGED marketplace

\* A query: the value returned is recorded with the argument.
GetFixedInput(i, aPeriod) ==
    /\ Record("getFixedInput", i,
              [aPeriod |-> aPeriod, result |-> getFixedInput(techs[i], aPeriod)])
    /\ log' = {}
    /\ calls' = <<>>
    /\ UNCHANGED <<techs, marketplace>>

CalcEmission(i) ==
    /\ techs' = [techs EXCEPT ![i] = calcEmission(techs[i])]
    /\ log' = {}
    /\ calls' = <<>>
    /\ Record("calcEmission", i, <<>>)
    /\ UNCHANGED marketplace

XMLParseNode(i, node) ==
    /\ techs' = [techs EXCEPT ![i] = XMLParse(techs[i], node)]
    /\ log' = {}
    /\ calls' = <<>>
    /\ Record("XMLParse", i, [node |-> node])
    /\ UNCHANGED marketplace

\* techs[j] becomes a new object cloned from techs[i].
Clone(i, j) ==
    /\ techs' = [techs EXCEPT ![j] = clone(techs[i])]
    /\ log' = {}
    /\ calls' = <<>>
    /\ Record("clone", i, [to |-> j])
    /\ UNCHANGED marketplace

\* techs[j] = techs[i], for two different objects.
Assign(i, j) ==
    /\ i # j
    /\ techs' = [techs EXCEPT ![j] = assign(techs[j], techs[i])]
    /\ log' = {}
    /\ calls' = <<>>
    /\ Record("assign", i, [to |-> j, target |-> techs[j]])
    /\ UNCHANGED marketplace

TabulateFixedDemands(i, period) ==
    /\ marketplace' = tabulateFixedDemands(techs[i], marketplace, period)
    /\ log' = {}
    /\ calls' = <<>>
    /\ Record("tabulateFixedDemands", i, [period |-> period])
    /\ UNCHANGED techs

Production(i, aDemand) ==
    /\ techs' = [techs EXCEPT ![i] = production(techs[i], aDemand)]
    /\ marketplace' = productionMarket(techs[i], marketplace, aDemand)
    /\ log' = productionLog(techs[i], aDemand)
    /\ calls' = productionCalls(techs[i], aDemand)
    /\ Record("production", i, [aDemand |-> aDemand])

----------------------------------------------------------------------------
(* The driving subsector.  It calls one method on every technology in      *)
(* index order, then moves to the next method of the period's cycle:       *)
(* completeInit, initCalc, calcCost, calcShare, normShare, adjShares,      *)
(* adjustForCalibration, production.  It passes in the aggregates it       *)
(* computes over its technologies.                                         *)

\* The sum of the technologies' shares.
SumShares(ts) == RSum([k \in 1..NumTechs |-> ts[k].share])

\* The total fixed output of the subsector.
TotalFixed(ts) == RSum([k \in 1..NumTechs |-> getFixedOutput(ts[k])])

\* The sum of the shares of the technologies without fixed output.
VarShareTot(ts) ==
    RSum([k \in 1..NumTechs |->
             IF RLe(Zero, ts[k].fixedOutputVal) THEN Zero ELSE ts[k].share])

\* The subsector is about to call the method of this phase on technology i.
At(phase, i) == pc.phase = phase /\ pc.cur = i

\* The subsector's position on entering a phase, with its aggregates over ts.
Enter(phase, ts) ==
    [pc EXCEPT !.phase = phase,
               !.cur = 1,
               !.sum = IF phase = "normShare" THEN SumShares(ts) ELSE @,
               !.fixed = IF phase = "adjShares" THEN TotalFixed(ts) ELSE @,
               !.varTot = IF phase = "adjShares" THEN VarShareTot(ts) ELSE @,
               !.pre = IF phase = "adjShares" THEN ts ELSE @]

\* Move to the next technology, or past the last one to the next phase.
Advance(next) ==
    pc' = IF pc.cur < NumTechs THEN [pc EXCEPT !.cur = @ + 1] ELSE Enter(next, techs')

\* What the configuration of a technology of the subsector may be.
TechConfigs ==
    { [initElementalMembers(getper_to_yr(0)) EXCEPT
          !.lexp = -1,
          !.fixedOutput = fo,
          !.mCalValue = cal,
          !.mTechData = [@ EXCEPT !.fuelName = fuel,
                                  !.efficiency = R(1, 2),
                                  !.nonEnergyCost = R(2, 1)]] :
      fuel \in {"coal", "renewable"},
      fo \in {getFixedOutputDefault, Zero, R(40, 1)},
      cal \in {NoCal, [kind |-> "output", value |-> R(30, 1)]} }

\* The subsector demands the driver may pass.
Demands == {Zero, R(30, 1), R(100, 1)}

\* The price the marketplace quotes for a fuel.
Prices == {R(10, 1)}

Init ==
    /\ techs \in [Techs -> TechConfigs]
    /\ \E price \in Prices : marketplace = NewMarketplace(price)
    /\ log = {}
    /\ calls = <<>>
    /\ last = [op |-> "none", i |-> 0, pre |-> <<>>, args |-> <<>>]
    /\ \E period \in Periods, dmd \in Demands :
          pc = [phase |-> "completeInit", cur |-> 1, period |-> period, dmd |-> dmd,
                sum |-> Zero, fixed |-> Zero, varTot |-> Zero, gdp |-> One,
                pre |-> <<>>]

Next ==
    \E i \in Techs :
        \/ At("completeInit", i) /\ CompleteInit(i) /\ Advance("initCalc")
        \/ At("initCalc", i) /\ InitCalc(i) /\ Advance("calcCost")
        \/ At("calcCost", i) /\ CalcCost(i) /\ Advance("calcShare")
        \/ At("calcShare", i) /\ CalcShare(i, pc.gdp) /\ Advance("normShare")
        \/ At("normShare", i) /\ NormShare(i, pc.sum) /\ Advance("adjShares")
        \/ At("adjShares", i) /\ AdjShares(i, pc.dmd, pc.fixed, pc.varTot)
                              /\ Advance("adjustForCalibration")
        \/ At("adjustForCalibration", i) /\ AdjustForCalibration(i, pc.dmd, pc.period)
                                         /\ Advance("production")
        \/ At("production", i) /\ Production(i, pc.dmd) /\ Advance("done")

Spec == Init /\ [][Next]_vars

----------------------------------------------------------------------------
(* SpecCost: one pass of technology 1 from configuration to production     *)
(* over a wide range of cost parameters and prices.  The other             *)
(* technologies stay as constructed.                                       *)

\* The subsector's position, outside a period's cycle.
Idle(phase) ==
    [phase |-> phase, cur |-> 1, period |-> 0, dmd |-> Zero, sum |-> Zero,
     fixed |-> Zero, varTot |-> Zero, gdp |-> One, pre |-> <<>>]

\* The subsector is about to call the method of this phase on technology 1.
At1(phase) == pc.phase = phase /\ pc.cur = 1

Goto(next) == pc' = [pc EXCEPT !.phase = next]

\* A parsed CO2 emission source with a carbon value.
TaxedCO2 == [name |-> "CO2", ghgValue |-> R(5, 1), coef |-> One, emission |-> Zero]

\* A parsed secondary output with a market value.
SecondaryOutput ==
    [kind |-> "secondary", value |-> R(30, 1), ratio |-> R(1, 2),
     physicalOutput |-> Zero]

CostConfigs ==
    { [initElementalMembers(getper_to_yr(0)) EXCEPT
          !.lexp = -1,
          !.pMultiplier = pm,
          !.ghg = g,
          !.ghgNameMap = {<<g[k].name, k - 1>> : k \in 1..Len(g)},
          !.mOutputs = o,
          !.mTechData = [@ EXCEPT !.fuelName = fuel,
                                  !.efficiency = eff,
                                  !.effPenalty = ep,
                                  !.nonEnergyCost = nec,
                                  !.neCostPenalty = np,
                                  !.fMultiplier = fm]] :
      fuel \in FuelNames,
      eff \in {R(1, 2), One},
      ep \in {Zero, R(1, 2)},
      nec \in {Zero, R(2, 1)},
      np \in {Zero, R(1, 2)},
      fm \in {One, R(2, 1)},
      pm \in {One, R(2, 1)},
      g \in {<<>>, <<TaxedCO2>>},
      o \in {<<>>, <<SecondaryOutput>>} }

CostPrices == {Zero, R(10, 1), NO_MARKET_PRICE}

InitCost ==
    /\ \E cfg \in CostConfigs :
          techs = [k \in Techs |->
                      IF k = 1 THEN cfg ELSE initElementalMembers(getper_to_yr(0))]
    /\ \E price \in CostPrices : marketplace = NewMarketplace(price)
    /\ log = {}
    /\ calls = <<>>
    /\ last = [op |-> "none", i |-> 0, pre |-> <<>>, args |-> <<>>]
    /\ pc = Idle("completeInit")

\* The sums of shares the subsector may pass to normShare.
ShareSums == {Zero, R(2, 1)}

NextCost ==
    \/ At1("completeInit") /\ CompleteInit(1) /\ Goto("calcCost")
    \/ At1("calcCost") /\ CalcCost(1) /\ Goto("calcShare")
    \/ At1("calcShare") /\ CalcShare(1, pc.gdp) /\ Goto("normShare")
    \/ At1("normShare") /\ (\E sum \in ShareSums : NormShare(1, sum))
                        /\ Goto("production")
    \/ At1("production") /\ (\E aDemand \in Demands : Production(1, aDemand))
                         /\ Goto("done")

SpecCost == InitCost /\ [][NextCost]_vars

----------------------------------------------------------------------------
(* Properties of calcCost, checked under SpecCost.                         *)

\* The fuel names calcCost and production are to leave off the ledger.
UnmeteredFuels == {"renewable", "none", ""}

\* Output values minus GHG costs of a technology, from its parts.
NetSecondaryValue(t) ==
    RSub(RSum([k \in 1..Len(t.mOutputs) |-> t.mOutputs[k].value]),
         RSum([k \in 1..Len(t.ghg) |-> t.ghg[k].ghgValue]))

\* efficiency * (1 - efficiencyPenalty)
EffectiveEfficiency(t) ==
    RMul(t.mTechData.efficiency, RSub(One, t.mTechData.effPenalty))

\* nonEnergyCost * (1 + nonEnergyCostPenalty)
EffectiveNonEnergyCost(t) ==
    RMul(t.mTechData.nonEnergyCost, RAdd(One, t.mTechData.neCostPenalty))

\* (fuelCost + effectiveNonEnergyCost) * priceMultiplier - net secondary value
ExpectedUnflooredCost(t, fuelcost) ==
    RSub(RMul(RAdd(fuelcost, EffectiveNonEnergyCost(t)), t.pMultiplier),
         NetSecondaryValue(t))

\* The price calcCost is to use: zero for an unmetered fuel, the large number
\* for a fuel without a price, the ledger's price otherwise.
ExpectedPrice(t) ==
    IF t.mTechData.fuelName \in UnmeteredFuels THEN Zero
    ELSE IF marketplace.price[t.mTechData.fuelName] = NO_MARKET_PRICE THEN getLargeNumber
    ELSE marketplace.price[t.mTechData.fuelName]

\* C4: after calcCost returns, totalCost is at least the small positive
\* epsilon, hence strictly positive, for every fuel price, multiplier,
\* non-energy cost and secondary value, also when the secondary value exceeds
\* the gross cost.
C4_TotalCostFloored ==
    last.op = "calcCost" =>
        /\ RLe(getSmallNumber, techs[last.i].techcost)
        /\ RLt(Zero, techs[last.i].techcost)

\* calcCost has run on a technology whose secondary value exceeds its gross cost.
C4_Witness ==
    /\ last.op = "calcCost"
    /\ RLt(RMul(RAdd(techs[last.i].fuelcost, EffectiveNonEnergyCost(last.pre)),
                last.pre.pMultiplier),
           NetSecondaryValue(last.pre))
    /\ techs[last.i].techcost = getSmallNumber

\* C5: calcCost sets fuelCost = price * fuelMultiplier / effectiveEfficiency
\* and totalCost = (fuelCost + effectiveNonEnergyCost) * priceMultiplier minus
\* the net secondary value, floored at epsilon; price 10, efficiency 0.5, fuel
\* multiplier 1, non-energy cost 2, price multiplier 1 and no valued GHG or
\* output give fuelCost = 20 and totalCost = 22.
C5_CostFormula ==
    last.op = "calcCost" =>
        LET t == last.pre
            fuelcost == techs[last.i].fuelcost
            techcost == techs[last.i].techcost
            unfloored == ExpectedUnflooredCost(t, fuelcost)
        IN  /\ fuelcost = RDiv(RMul(ExpectedPrice(t), t.mTechData.fMultiplier),
                               EffectiveEfficiency(t))
            /\ techcost = IF RLt(unfloored, getSmallNumber)
                          THEN getSmallNumber
                          ELSE unfloored
            /\ ( /\ t.mTechData.fuelName = "coal"
                 /\ marketplace.price["coal"] = R(10, 1)
                 /\ EffectiveEfficiency(t) = R(1, 2)
                 /\ t.mTechData.fMultiplier = One
                 /\ EffectiveNonEnergyCost(t) = R(2, 1)
                 /\ t.pMultiplier = One
                 /\ NetSecondaryValue(t) = Zero )
               => (fuelcost = R(20, 1) /\ techcost = R(22, 1))

\* calcCost has run in the scenario: price 10, efficiency 0.5, non-energy cost 2.
C5_Witness ==
    /\ last.op = "calcCost"
    /\ last.pre.mTechData.fuelName = "coal"
    /\ marketplace.price["coal"] = R(10, 1)
    /\ last.pre.mTechData.efficiency = R(1, 2)
    /\ last.pre.mTechData.effPenalty = Zero
    /\ last.pre.mTechData.fMultiplier = One
    /\ last.pre.mTechData.nonEnergyCost = R(2, 1)
    /\ last.pre.mTechData.neCostPenalty = Zero
    /\ last.pre.pMultiplier = One
    /\ NetSecondaryValue(last.pre) = Zero
    /\ techs[last.i].fuelcost = R(20, 1)
    /\ techs[last.i].techcost = R(22, 1)

\* C6: when the fuel name is "none", empty or "renewable", calcCost does not
\* consult the ledger price and sets fuelCost = 0, whatever price the ledger
\* holds for that name.
C6_UnpricedFuelCostsNothing ==
    (last.op = "calcCost" /\ last.pre.mTechData.fuelName \in UnmeteredFuels) =>
        /\ calls = <<>>
        /\ techs[last.i].fuelcost = Zero

\* calcCost has run for an unmetered fuel while the ledger quotes 10 for its name.
C6_Witness ==
    /\ last.op = "calcCost"
    /\ last.pre.mTechData.fuelName = "none"
    /\ marketplace.price["none"] = R(10, 1)
    /\ techs[last.i].fuelcost = Zero

\* C7: when a priced fuel has no ledger price (getPrice returns
\* NO_MARKET_PRICE), calcCost logs an error, substitutes a very large finite
\* price and completes with fuelCost and totalCost computed from the
\* substitute; the sentinel itself is never used as the price.
C7_MissingPriceSubstituted ==
    ( /\ last.op = "calcCost"
      /\ last.pre.mTechData.fuelName \notin UnmeteredFuels
      /\ marketplace.price[last.pre.mTechData.fuelName] = NO_MARKET_PRICE ) =>
        LET t == last.pre
            fuelcost == techs[last.i].fuelcost
            techcost == techs[last.i].techcost
        IN  /\ "ERROR: fuel with no price" \in log
            /\ calls = << <<"getPrice", t.mTechData.fuelName>> >>
            /\ fuelcost = RDiv(RMul(getLargeNumber, t.mTechData.fMultiplier),
                               EffectiveEfficiency(t))
            /\ fuelcost # RDiv(RMul(NO_MARKET_PRICE, t.mTechData.fMultiplier),
                               EffectiveEfficiency(t))
            /\ IsFinite(fuelcost)
            /\ IsFinite(techcost)
            /\ techcost = RMax(ExpectedUnflooredCost(t, fuelcost), getSmallNumber)

\* calcCost has run for a priced fuel the ledger holds no price for.
C7_Witness ==
    /\ last.op = "calcCost"
    /\ last.pre.mTechData.fuelName = "coal"
    /\ marketplace.price["coal"] = NO_MARKET_PRICE
    /\ "ERROR: fuel with no price" \in log
    /\ RLe(getLargeNumber, techs[last.i].fuelcost)

----------------------------------------------------------------------------
(* Properties of production, checked under SpecCost.                       *)

\* C1: production registers fuelInput as demand on the ledger if and only if
\* the fuel name is none of "renewable", "none" and the empty string; for each
\* of those three names production makes no addToDemand call.
C1_DemandIffMetered ==
    last.op = "production" =>
        IF last.pre.mTechData.fuelName \notin UnmeteredFuels
        THEN calls = << <<"addToDemand", last.pre.mTechData.fuelName,
                          techs[last.i].input>> >>
        ELSE calls = <<>>

----------------------------------------------------------------------------
(* SpecShare: the share pass over technologies that have been costed.      *)
(* The technologies share a logit exponent and a fuel-preference           *)
(* elasticity and differ in share weight and cost; every cost is one       *)
(* calcCost can leave, that is at least the floor.                         *)

\* The costs of a costed technology.
ShareCosts == {getSmallNumber, R(1, 2), One, R(22, 1)}

\* Scaled GDP per capita, as the macro driver may report it.
GDPs == {R(1, 2), R(2, 1)}

\* A share-pass technology: completed, with a cost, a weight and the exponents.
ShareTech(w, cost, lexp, elasticity) ==
    [completeInit(initElementalMembers(getper_to_yr(0))) EXCEPT
        !.shrwts = w,
        !.techcost = cost,
        !.lexp = lexp,
        !.mTechData = [@ EXCEPT !.fuelPrefElasticity = elasticity]]

InitShare ==
    /\ \E lexp \in {-1, -2}, elasticity \in {0, 1} :
          \E w \in [Techs -> {One, R(2, 1)}], cost \in [Techs -> ShareCosts] :
              techs = [k \in Techs |-> ShareTech(w[k], cost[k], lexp, elasticity)]
    /\ marketplace = NewMarketplace(R(10, 1))
    /\ log = {}
    /\ calls = <<>>
    /\ last = [op |-> "none", i |-> 0, pre |-> <<>>, args |-> <<>>]
    /\ \E gdp \in GDPs : pc = [Idle("calcShare") EXCEPT !.gdp = gdp]

NextShare ==
    \E i \in Techs :
        \/ At("calcShare", i) /\ CalcShare(i, pc.gdp) /\ Advance("normShare")
        \/ At("normShare", i) /\ (\E sum \in ShareSums \cup {pc.sum} : NormShare(i, sum))
                              /\ Advance("done")

SpecShare == InitShare /\ [][NextShare]_vars

\* C8: normShare(sum) sets share to 0 when sum == 0, for any prior
\* unnormalized share, and to share / sum otherwise; it never divides by zero.
C8_NormShareGuarded ==
    last.op = "normShare" =>
        /\ IsFinite(techs[last.i].share)
        /\ IF last.args.sum = Zero
           THEN techs[last.i].share = Zero
           ELSE RMul(techs[last.i].share, last.args.sum) = last.pre.share

\* normShare(0) has run on a technology with a positive unnormalized share.
C8_Witness ==
    /\ last.op = "normShare"
    /\ last.args.sum = Zero
    /\ RLt(Zero, last.pre.share)
    /\ techs[last.i].share = Zero

\* Every technology has its unnormalized share and none has been normalized.
SharesFresh == pc.phase = "normShare" /\ pc.cur = 1

\* C9: for fixed shareWeight > 0, logitExponent < 0 and fuel-preference
\* scaling, the unnormalized share of calcShare is strictly decreasing in
\* totalCost over all positive totalCost: a larger cost never gives an equal
\* or larger share.
C9_ShareDecreasesWithCost ==
    SharesFresh =>
        \A i, j \in Techs :
            ( /\ techs[i].shrwts = techs[j].shrwts
              /\ RLt(Zero, techs[i].shrwts)
              /\ techs[i].lexp = techs[j].lexp
              /\ techs[i].lexp < 0
              /\ techs[i].mTechData.fuelPrefElasticity
                    = techs[j].mTechData.fuelPrefElasticity
              /\ RLt(Zero, techs[i].techcost)
              /\ RLt(techs[i].techcost, techs[j].techcost) )
            => RLt(techs[j].share, techs[i].share)

\* Two technologies alike but for their costs have their unnormalized shares.
C9_Witness ==
    /\ SharesFresh
    /\ \E i, j \in Techs :
          /\ techs[i].shrwts = techs[j].shrwts
          /\ techs[i].lexp = -2
          /\ techs[i].mTechData.fuelPrefElasticity = 1
          /\ techs[i].techcost = getSmallNumber
          /\ techs[j].techcost = R(22, 1)
          /\ RLt(techs[j].share, techs[i].share)

----------------------------------------------------------------------------
(* Properties of adjShares, checked under Spec.                            *)

\* The code's test for a technology with fixed output.
HasFixedOutput(t) == RLe(Zero, t.fixedOutputVal)

\* max(subsectorDemand - subsectorFixedOutput, 0)
RemainingDemand(dmd, fixed) ==
    IF RLt(RSub(dmd, fixed), Zero) THEN Zero ELSE RSub(dmd, fixed)

\* The share the adjShares contract gives technology t.
ExpectedAdjShare(t, dmd, fixed, varTot) ==
    IF HasFixedOutput(t)
    THEN IF dmd = Zero THEN Zero ELSE RDiv(t.fixedOutputVal, dmd)
    ELSE IF dmd = Zero THEN Zero
         ELSE RDiv(RMul(t.share, RDiv(RemainingDemand(dmd, fixed), dmd)), varTot)

\* Subsectors in which some technology has fixed output.
InitFixed == Init /\ \E k \in Techs : RLe(Zero, techs[k].fixedOutput)

SpecFixed == InitFixed /\ [][Next]_vars

\* C3: adjShares sets a fixed-output technology's share to
\* fixedOutputCurrent / subsectorDemand (0 when subsectorDemand is 0) and a
\* variable technology's share to
\* share * (remainingDemand / subsectorDemand) / variableShareTotal
\* (0 when subsectorDemand is 0); fixedOutputCurrent = 40 and a variable
\* share of 1.0 at subsectorDemand = 100, subsecfixedOutput = 40,
\* variableShareTotal = 1.0 give shares 0.4 and 0.6.
C3_AdjSharesFormula ==
    last.op = "adjShares" =>
        LET t == last.pre
            dmd == last.args.subsecdmd
            fixed == last.args.subsecfixedOutput
            varTot == last.args.varShareTot
            share == techs[last.i].share
        IN  /\ share = ExpectedAdjShare(t, dmd, fixed, varTot)
            /\ (dmd = R(100, 1) /\ fixed = R(40, 1) /\ varTot = One) =>
                  /\ t.fixedOutputVal = R(40, 1) => share = R(2, 5)
                  /\ (~HasFixedOutput(t) /\ t.share = One) => share = R(3, 5)

\* A technology configured with fixed output 0 went through adjShares at
\* positive demand and kept a positive share.
ZeroFixedOutputKeepsShare ==
    /\ last.op = "adjShares"
    /\ last.pre.fixedOutputVal = Zero
    /\ RLt(Zero, last.args.subsecdmd)
    /\ RLt(Zero, techs[last.i].share)

\* adjShares has been called on every technology with the round's aggregates.
AdjSharesDone == last.op = "adjShares" /\ last.i = NumTechs

\* The premises of C2 on the technologies as they entered the round.
MixedSubsector ==
    /\ RLt(Zero, pc.dmd)
    /\ RLt(Zero, pc.fixed)
    /\ pc.fixed = RSum([k \in 1..NumTechs |->
                           IF HasFixedOutput(pc.pre[k])
                           THEN pc.pre[k].fixedOutputVal ELSE Zero])
    /\ RLt(Zero, pc.varTot)
    /\ pc.varTot = RSum([k \in 1..NumTechs |->
                            IF HasFixedOutput(pc.pre[k])
                            THEN Zero ELSE pc.pre[k].share])
    /\ \E k \in Techs : HasFixedOutput(pc.pre[k])
    /\ \E k \in Techs : ~HasFixedOutput(pc.pre[k])

\* C2 as stated: in a subsector mixing fixed-output and variable technologies,
\* with subsectorDemand > 0, subsectorFixedOutput > 0 the sum of the fixed
\* technologies' working values and variableShareTotal the positive sum of
\* the variable technologies' shares, adjShares on every technology leaves
\* shares that sum to 1.
C2_SharesSumToOneAlways ==
    (AdjSharesDone /\ MixedSubsector) => SumShares(techs) = One

\* C2, amended: the same, provided subsectorFixedOutput does not exceed
\* subsectorDemand.
C2_SharesSumToOne ==
    (AdjSharesDone /\ MixedSubsector /\ RLe(pc.fixed, pc.dmd)) =>
        SumShares(techs) = One

\* A mixed subsector whose fixed output fits its demand has been adjusted.
C2_Witness ==
    /\ AdjSharesDone
    /\ MixedSubsector
    /\ pc.fixed = R(40, 1)
    /\ pc.dmd = R(100, 1)
    /\ \E k \in Techs : techs[k].share = R(2, 5)
    /\ \E k \in Techs : techs[k].share = R(3, 5)

----------------------------------------------------------------------------
(* SpecCal: calibration of technology 1 from any share weight and share.   *)

CalShares == {Zero, R(1, 2), One}

CalValues ==
    {NoCal,
     [kind |-> "output", value |-> R(30, 1)],
     [kind |-> "input", value |-> R(30, 1)],
     [kind |-> "output", value |-> R(-5, 1)]}

\* A technology before calibration: completed, with a weight, a share and a
\* calibration value.
CalTech(w, share, cal) ==
    [completeInit([initElementalMembers(getper_to_yr(0)) EXCEPT
                      !.mCalValue = cal,
                      !.mTechData = [@ EXCEPT !.efficiency = R(1, 2)]])
        EXCEPT !.shrwts = w, !.share = share]

InitCal ==
    /\ \E w \in {R(-1, 1), Zero, One, R(2, 1)}, share \in CalShares,
          cal \in CalValues :
          techs = [k \in Techs |->
                      IF k = 1 THEN CalTech(w, share, cal)
                      ELSE initElementalMembers(getper_to_yr(0))]
    /\ marketplace = NewMarketplace(R(10, 1))
    /\ log = {}
    /\ calls = <<>>
    /\ last = [op |-> "none", i |-> 0, pre |-> <<>>, args |-> <<>>]
    /\ \E period \in Periods, dmd \in Demands :
          pc = [Idle("initCalc") EXCEPT !.period = period, !.dmd = dmd]

NextCal ==
    \/ At1("initCalc") /\ InitCalc(1) /\ Goto("adjustForCalibration")
    \/ At1("adjustForCalibration") /\ AdjustForCalibration(1, pc.dmd, pc.period)
                                   /\ Goto("done")

SpecCal == InitCal /\ [][NextCal]_vars

\* The calibration target adjustForCalibration read.
LastCalOutput == getCalibrationOutput(last.pre, last.args.period)

\* share * subsectorDemand as adjustForCalibration computed it.
LastTechnologyDemand == RMul(last.pre.share, last.args.subSectorDemand)

\* C10 as stated: adjustForCalibration with shareWeight == 0 and calOutput > 0
\* leaves a nonzero share weight; and whenever technologyDemand is 0 the
\* scale step is skipped, so the weight ends exactly at its input value, or at
\* 1 if it was bumped from 0.
C10_CalibrationWeightAlways ==
    last.op = "adjustForCalibration" =>
        /\ (last.pre.shrwts = Zero /\ RLt(Zero, LastCalOutput))
              => techs[last.i].shrwts # Zero
        /\ LastTechnologyDemand = Zero =>
              techs[last.i].shrwts =
                  IF last.pre.shrwts = Zero /\ RLt(Zero, LastCalOutput)
                  THEN One
                  ELSE last.pre.shrwts

\* C10, amended: adjustForCalibration with shareWeight == 0 and calOutput > 0
\* leaves a nonzero share weight; and whenever technologyDemand is 0 the
\* scale step is skipped, so a non-negative weight ends exactly at its input
\* value, or at 1 if it was bumped from 0, while a negative input weight is
\* reset to 1.
C10_CalibrationWeight ==
    last.op = "adjustForCalibration" =>
        /\ (last.pre.shrwts = Zero /\ RLt(Zero, LastCalOutput))
              => techs[last.i].shrwts # Zero
        /\ LastTechnologyDemand = Zero =>
              techs[last.i].shrwts =
                  IF last.pre.shrwts = Zero /\ RLt(Zero, LastCalOutput)
                  THEN One
                  ELSE IF RLt(last.pre.shrwts, Zero) THEN One
                  ELSE last.pre.shrwts

\* A zero weight met a positive calibration target at zero technology demand.
C10_Witness ==
    /\ last.op = "adjustForCalibration"
    /\ last.pre.shrwts = Zero
    /\ RLt(Zero, LastCalOutput)
    /\ LastTechnologyDemand = Zero
    /\ techs[last.i].shrwts = One

\* The weight the bump and the rescale of the last adjustForCalibration gave.
LastRescaledWeight ==
    LET bumped == IF last.pre.shrwts = Zero /\ RLt(Zero, LastCalOutput)
                  THEN One ELSE last.pre.shrwts
    IN  IF RLt(Zero, LastTechnologyDemand)
        THEN RMul(bumped, RDiv(LastCalOutput, LastTechnologyDemand))
        ELSE bumped

\* C11: after adjustForCalibration returns, shareWeight is never negative,
\* for any prior weight, share, subsector demand and calibration target: a
\* negative result of the rescale is replaced by 1.
C11_WeightNeverNegative ==
    last.op = "adjustForCalibration" =>
        /\ RLe(Zero, techs[last.i].shrwts)
        /\ RLt(LastRescaledWeight, Zero) => techs[last.i].shrwts = One
        /\ ~RLt(LastRescaledWeight, Zero) => techs[last.i].shrwts = LastRescaledWeight

\* A negative weight was rescaled to a negative value and replaced by 1.
C11_Witness ==
    /\ last.op = "adjustForCalibration"
    /\ RLt(last.pre.shrwts, Zero)
    /\ RLt(Zero, LastTechnologyDemand)
    /\ RLt(Zero, LastCalOutput)
    /\ RLt(LastRescaledWeight, Zero)
    /\ techs[last.i].shrwts = One

----------------------------------------------------------------------------
(* SpecFixedOutput: technology 1, completed, under any sequence of at most *)
(* MaxCalls calls that touch or read its fixed output.                     *)

\* The number of calls the subsector makes after completeInit.
MaxCalls == 3

FixedOutputConfigs ==
    { [initElementalMembers(yr) EXCEPT
          !.fixedOutput = fo,
          !.share = R(1, 2),
          !.mTechData = [@ EXCEPT !.efficiency = eff, !.effPenalty = ep]] :
      yr \in {getper_to_yr(0), getper_to_yr(1)},
      fo \in {getFixedOutputDefault, Zero, R(40, 1), R(50, 1)},
      eff \in {R(1, 4), R(1, 2)},
      ep \in {Zero, R(1, 2)} }

\* The ratios demand / total fixed output the subsector scales by.
ScaleRatios == {Zero, R(1, 2), R(2, 1)}

InitFixedOutput ==
    /\ \E cfg \in FixedOutputConfigs :
          techs = [k \in Techs |->
                      IF k = 1 THEN cfg ELSE initElementalMembers(getper_to_yr(0))]
    /\ marketplace = NewMarketplace(R(10, 1))
    /\ log = {}
    /\ calls = <<>>
    /\ last = [op |-> "none", i |-> 0, pre |-> <<>>, args |-> <<>>]
    /\ pc = [Idle("completeInit") EXCEPT !.pre = 0]

\* One more call is made in the phase of free calls.
Call == pc.phase = "calls" /\ pc.pre < MaxCalls /\ pc' = [pc EXCEPT !.pre = @ + 1]

NextFixedOutput ==
    \/ At1("completeInit") /\ CompleteInit(1) /\ Goto("calls")
    \/ Call /\ \E scaleRatio \in ScaleRatios : ScaleFixedOutput(1, scaleRatio)
    \/ Call /\ \E subsecdmd \in Demands, subsecfixedOutput \in {Zero, R(40, 1), R(150, 1)} :
                  AdjShares(1, subsecdmd, subsecfixedOutput, One)
    \/ Call /\ ResetFixedOutput(1)
    \/ Call /\ \E aPeriod \in Periods : GetFixedInput(1, aPeriod)

SpecFixedOutput == InitFixedOutput /\ [][NextFixedOutput]_vars

\* fixedOutputSpec / effective efficiency
ConfiguredFixedInput(t) == RDiv(t.fixedOutput, EffectiveEfficiency(t))

\* C12 as stated: getFixedInput(period) returns the configured fixed output
\* divided by effective efficiency (50 at efficiency 0.25 gives 200) when the
\* period's year is the vintage year, 0 in every other period, and 0 when no
\* fixed output is configured.
C12_FixedInputOfSpec ==
    last.op = "getFixedInput" =>
        LET t == last.pre
        IN  last.args.result =
                IF RLe(Zero, t.fixedOutput) /\ t.year = getper_to_yr(last.args.aPeriod)
                THEN ConfiguredFixedInput(t)
                ELSE Zero

\* C12, amended: getFixedInput(period) returns the working fixed-output value
\* divided by effective efficiency when the period's year is the vintage
\* year, 0 in every other period, and 0 when no fixed output is configured;
\* the working value is the configured fixed output (50 at efficiency 0.25
\* gives 200) as long as no scaleFixedOutput or adjShares call has changed it
\* since completeInit or the last resetFixedOutput.
C12_FixedInputOfWorkingValue ==
    last.op = "getFixedInput" =>
        LET t == last.pre
            inVintageYear == t.year = getper_to_yr(last.args.aPeriod)
        IN  /\ last.args.result =
                  IF RLe(Zero, t.fixedOutput) /\ inVintageYear
                  THEN RDiv(t.fixedOutputVal, EffectiveEfficiency(t))
                  ELSE Zero
            /\ (t.fixedOutputVal = t.fixedOutput /\ RLe(Zero, t.fixedOutput)
                   /\ inVintageYear)
                  => last.args.result = ConfiguredFixedInput(t)
            /\ (t.fixedOutputVal = R(50, 1) /\ EffectiveEfficiency(t) = R(1, 4)
                   /\ inVintageYear)
                  => last.args.result = R(200, 1)

\* Fixed output 50 at efficiency 0.25 was read in the vintage year and in
\* another period.
C12_Witness ==
    /\ last.op = "getFixedInput"
    /\ last.pre.fixedOutput = R(50, 1)
    /\ last.pre.fixedOutputVal = R(50, 1)
    /\ EffectiveEfficiency(last.pre) = R(1, 4)
    /\ last.pre.year = getper_to_yr(last.args.aPeriod)
    /\ last.args.result = R(200, 1)

\* C15: for a technology with a configured fixed output (fixedOutputSpec >=
\* 0), after resetFixedOutput the working fixed-output value equals the
\* configured spec, whatever scaleFixedOutput and adjShares calls preceded it;
\* for a technology without one, resetFixedOutput changes nothing.
C15_ResetRestoresSpec ==
    last.op = "resetFixedOutput" =>
        IF RLe(Zero, last.pre.fixedOutput)
        THEN techs[last.i] = [last.pre EXCEPT !.fixedOutputVal = last.pre.fixedOutput]
        ELSE techs[last.i] = last.pre

\* A scaled working value was restored to the configured 40.
C15_Witness ==
    /\ last.op = "resetFixedOutput"
    /\ last.pre.fixedOutput = R(40, 1)
    /\ last.pre.fixedOutputVal # R(40, 1)
    /\ techs[last.i].fixedOutputVal = R(40, 1)

\* C16: scaleFixedOutput(ratio) multiplies the working fixed-output value by
\* ratio when a fixed-output spec is set, and leaves the working value and
\* every other field unchanged when none is set, so an unconstrained
\* technology stays at the -1 sentinel.
C16_ScaleOnlyFixedOutput ==
    last.op = "scaleFixedOutput" =>
        IF RLe(Zero, last.pre.fixedOutput)
        THEN techs[last.i] =
                 [last.pre EXCEPT !.fixedOutputVal =
                                      RMul(last.pre.fixedOutputVal, last.args.scaleRatio)]
        ELSE /\ techs[last.i] = last.pre
             /\ techs[last.i].fixedOutputVal = R(-1, 1)

\* An unconstrained technology was scaled by 1/2 and stayed at the sentinel.
C16_Witness ==
    /\ last.op = "scaleFixedOutput"
    /\ last.args.scaleRatio = R(1, 2)
    /\ last.pre.fixedOutput = R(-1, 1)
    /\ techs[last.i].fixedOutputVal = R(-1, 1)

----------------------------------------------------------------------------
(* SpecRerun: the solver runs technology 1's cost, share and production    *)
(* cycle twice in one period, with the same prices, share sum and demand.  *)

InitRerun ==
    /\ \E cfg \in CostConfigs :
          techs = [k \in Techs |->
                      IF k = 1 THEN cfg ELSE initElementalMembers(getper_to_yr(0))]
    /\ \E price \in {R(10, 1), NO_MARKET_PRICE} : marketplace = NewMarketplace(price)
    /\ log = {}
    /\ calls = <<>>
    /\ last = [op |-> "none", i |-> 0, pre |-> <<>>, args |-> <<>>]
    /\ \E sum \in ShareSums, dmd \in Demands :
          pc = [Idle("completeInit") EXCEPT
                   !.sum = sum, !.dmd = dmd,
                   !.pre = [run |-> 1, techs |-> techs, marketplace |-> marketplace]]

\* After production the first run is remembered and the cycle starts again.
NextRerun ==
    \/ At1("completeInit") /\ CompleteInit(1) /\ Goto("calcCost")
    \/ At1("calcCost") /\ CalcCost(1) /\ Goto("calcShare")
    \/ At1("calcShare") /\ CalcShare(1, pc.gdp) /\ Goto("normShare")
    \/ At1("normShare") /\ NormShare(1, pc.sum) /\ Goto("production")
    \/ /\ At1("production")
       /\ Production(1, pc.dmd)
       /\ pc' = IF pc.pre.run = 1
                THEN [pc EXCEPT !.phase = "calcCost",
                                !.pre = [run |-> 2, techs |-> techs',
                                         marketplace |-> marketplace']]
                ELSE [pc EXCEPT !.phase = "rerun"]

SpecRerun == InitRerun /\ [][NextRerun]_vars

----------------------------------------------------------------------------
(* SpecObject: the life of technology 1 as an object.  Its child nodes are *)
(* parsed, completeInit is called, and the cycle initCalc, calcCost,       *)
(* calcShare, production, calcEmission runs once per period; between       *)
(* periods further nodes may be parsed, at most MaxCalls nodes in all.  At *)
(* any point after completeInit technology 2 may be made a clone of        *)
(* technology 1, or assigned from it; both then run production with the    *)
(* same demand.                                                            *)

\* A parsed emission source other than CO2.
CH4 == [TaxedCO2 EXCEPT !.name = "CH4"]

\* The secondary outputs a technology may be configured with, in order.
OutputConfigs ==
    LET heat == [SecondaryOutput EXCEPT !.ratio = One]
    IN  {<<>>, <<SecondaryOutput, heat>>, <<heat, SecondaryOutput>>}

InitObject ==
    /\ \E o \in OutputConfigs, fresh \in BOOLEAN :
          /\ techs = [k \in Techs |->
                IF k = 1
                THEN [initElementalMembers(getper_to_yr(0)) EXCEPT
                         !.lexp = -1,
                         !.mOutputs = o,
                         !.mTechData = [@ EXCEPT !.efficiency = R(1, 2),
                                                 !.nonEnergyCost = R(2, 1)]]
                ELSE IF k = 2 /\ ~fresh
                THEN completeInit([initElementalMembers(getper_to_yr(0)) EXCEPT
                                      !.mOutputs = <<SecondaryOutput>>])
                ELSE initElementalMembers(getper_to_yr(0))]
          /\ pc = [Idle("parse") EXCEPT
                      !.dmd = R(100, 1),
                      !.pre = [outputs |-> o, nodes |-> 0, twin |-> "none"]]
    /\ marketplace = NewMarketplace(R(10, 1))
    /\ log = {}
    /\ calls = <<>>
    /\ last = [op |-> "none", i |-> 0, pre |-> <<>>, args |-> <<>>]

\* The phases of technology 1's cycle, all after completeInit.
CyclePhases == {"initCalc", "calcCost", "calcShare", "production", "calcEmission"}

\* One more node is parsed, between periods or before completeInit: a GHG
\* node or a fuelname node.
ParseNode ==
    /\ pc.phase \in {"parse", "initCalc"}
    /\ pc.pre.nodes < MaxCalls
    /\ \/ \E g \in {TaxedCO2, CH4} :
              XMLParseNode(1, [nodeName |-> "GHG", value |-> g])
       \/ \E f \in {"coal", "renewable"} :
              XMLParseNode(1, [nodeName |-> "fuelname", value |-> f])
    /\ pc' = [pc EXCEPT !.pre = [@ EXCEPT !.nodes = @ + 1]]

\* Technology 2 is copied from technology 1; the two then run production.
Twin(how) == pc' = [pc EXCEPT !.phase = "twin1", !.pre = [@ EXCEPT !.twin = how]]

NextObject ==
    \/ ParseNode
    \/ At1("parse") /\ CompleteInit(1) /\ Goto("initCalc")
    \/ At1("initCalc") /\ InitCalc(1) /\ Goto("calcCost")
    \/ At1("calcCost") /\ CalcCost(1) /\ Goto("calcShare")
    \/ At1("calcShare") /\ CalcShare(1, pc.gdp) /\ Goto("production")
    \/ At1("production") /\ Production(1, pc.dmd) /\ Goto("calcEmission")
    \/ /\ At1("calcEmission")
       /\ CalcEmission(1)
       /\ pc' = IF pc.period < MaxPeriod
                THEN [pc EXCEPT !.phase = "initCalc", !.period = @ + 1]
                ELSE [pc EXCEPT !.phase = "done"]
    \/ pc.phase \in CyclePhases /\ Clone(1, 2) /\ Twin("clone")
    \/ pc.phase \in CyclePhases /\ Assign(1, 2) /\ Twin("assign")
    \/ At1("twin1") /\ Production(1, pc.dmd) /\ Goto("twin2")
    \/ At1("twin2") /\ Production(2, pc.dmd) /\ Goto("twins")
    \/ /\ At1("twin2")
       /\ techs[2].deleted # [ghg |-> 0, mOutputs |-> 0]
       /\ Goto("crashed")
       /\ UNCHANGED <<techs, marketplace, log, calls, last>>

SpecObject == InitObject /\ [][NextObject]_vars

C17_EmissionMapsRebuilt ==
    last.op = "calcEmission" =>
        LET t == techs[last.i]
            fuel == t.mTechData.fuelName
        IN  /\ t.emissmap =
                  UNION { { <<t.ghg[k].name, t.ghg[k].emission>>,
                            <<t.ghg[k].name \o fuel, t.ghg[k].emission>>,
                            <<t.ghg[k].name \o "sequestGeologic", Zero>>,
                            <<t.ghg[k].name \o "sequestNonEngy", Zero>> } :
                          k \in 1..Len(t.ghg) }
            /\ t.emfuelmap =
                  IF t.ghg = <<>> THEN {}
                  ELSE {<<fuel, t.ghg[Len(t.ghg)].emission>>}

\* calcEmission ran on maps holding an entry of a fuel no longer in use, and
\* dropped it.
C17_Witness ==
    /\ last.op = "calcEmission"
    /\ techs[last.i].mTechData.fuelName = "renewable"
    /\ \E e \in last.pre.emissmap : e[1] = "CO2coal"
    /\ \A e \in techs[last.i].emissmap : e[1] # "CO2coal"
    /\ \E e \in techs[last.i].emissmap : e[1] = "CO2renewable"

\* C18: after completeInit the technology holds exactly one emission source
\* per distinct gas name and one of them is CO2: a CO2 source is appended
\* when the configuration has none, and no second CO2 source is added when
\* the configuration already has one.
C18_OneSourcePerGas ==
    /\ pc.phase # "parse" =>
          LET ghg == techs[1].ghg
          IN  /\ \A j, k \in 1..Len(ghg) : ghg[j].name = ghg[k].name => j = k
              /\ \E k \in 1..Len(ghg) : ghg[k].name = "CO2"
    /\ last.op = "completeInit" =>
          techs[last.i].ghg =
              IF \E k \in 1..Len(last.pre.ghg) : last.pre.ghg[k].name = "CO2"
              THEN last.pre.ghg
              ELSE Append(last.pre.ghg, CO2Emissions)

\* A configuration with CH4 and CO2 sources was completed with no second CO2.
C18_Witness ==
    /\ last.op = "completeInit"
    /\ last.pre.ghg = <<CH4, TaxedCO2>>
    /\ techs[last.i].ghg = <<CH4, TaxedCO2>>

\* C19: from completeInit onward, in every state reached through initCalc,
\* calcCost, calcShare, production, calcEmission, copy/assignment and clone,
\* the output channel at index 0 is the single primary output and the
\* configured secondary outputs follow it in their original order.
C19_PrimaryOutputFirst ==
    \A i \in (IF pc.phase = "parse" THEN {} ELSE {1})
                \cup (IF pc.phase \in {"twin1", "twin2", "twins", "crashed"}
                      THEN {2} ELSE {}) :
        LET mOutputs == techs[i].mOutputs
        IN  /\ techs[i].deleted.mOutputs = 0
            /\ Len(mOutputs) = 1 + Len(pc.pre.outputs)
            /\ mOutputs[1].kind = "primary"
            /\ \A k \in 2..Len(mOutputs) :
                  [mOutputs[k] EXCEPT !.physicalOutput = Zero] = pc.pre.outputs[k - 1]

----------------------------------------------------------------------------
(* SpecConverge: one calibration round of technology 1.  The subsector     *)
(* computes and normalises the share, adjusts the share weight to the      *)
(* calibration value, and computes and normalises the share again with the *)
(* same cost, GDP and sum of shares.                                       *)

\* The unnormalised shares of the sibling technologies, summed.
SiblingShares == {Zero, One, R(3, 1)}

\* The calibration values of the round.
ConvergeCalValues ==
    {NoCal,
     [kind |-> "output", value |-> Zero],
     [kind |-> "output", value |-> R(30, 1)],
     [kind |-> "input", value |-> R(30, 1)]}

InitConverge ==
    /\ \E w \in {R(-1, 1), Zero, One, R(2, 1)}, cost \in {R(1, 2), One, R(22, 1)},
          lexp \in {-1, -2}, elasticity \in {0, 1}, cal \in ConvergeCalValues,
          gdp \in GDPs, siblings \in SiblingShares, period \in Periods,
          dmd \in Demands :
          LET t == [ShareTech(w, cost, lexp, elasticity) EXCEPT
                       !.mCalValue = cal,
                       !.mTechData = [@ EXCEPT !.efficiency = R(1, 2)]]
          IN  /\ techs = [k \in Techs |->
                             IF k = 1 THEN t
                             ELSE initElementalMembers(getper_to_yr(0))]
              /\ pc = [Idle("calcShare") EXCEPT
                          !.gdp = gdp, !.period = period, !.dmd = dmd,
                          !.sum = RAdd(calcShare(t, gdp).share, siblings)]
    /\ marketplace = NewMarketplace(R(10, 1))
    /\ log = {}
    /\ calls = <<>>
    /\ last = [op |-> "none", i |-> 0, pre |-> <<>>, args |-> <<>>]

NextConverge ==
    \/ At1("calcShare") /\ CalcShare(1, pc.gdp) /\ Goto("normShare")
    \/ At1("normShare") /\ NormShare(1, pc.sum) /\ Goto("adjustForCalibration")
    \/ /\ At1("adjustForCalibration")
       /\ AdjustForCalibration(1, pc.dmd, pc.period)
       /\ pc' = [pc EXCEPT !.phase = "calcShareAgain", !.pre = techs[1]]
    \/ At1("calcShareAgain") /\ CalcShare(1, pc.gdp) /\ Goto("normShareAgain")
    \/ At1("normShareAgain") /\ NormShare(1, pc.sum) /\ Goto("converged")

SpecConverge == InitConverge /\ [][NextConverge]_vars

\* share * subsectorDemand as the round's adjustForCalibration computed it.
RoundTechnologyDemand == RMul(pc.pre.share, pc.dmd)

\* The calibration target of the round.
RoundCalOutput == getCalibrationOutput(pc.pre, pc.period)

\* C20 as stated: if adjustForCalibration runs with technologyDemand =
\* share * subsectorDemand > 0 and a nonnegative calibration target, then the
\* share recomputed by calcShare at unchanged cost and normalised by the same
\* sum gives share * subsectorDemand equal to calOutput, and a technology
\* already on target keeps its share weight unchanged.
C20_OneRoundOnTargetAnyWeight ==
    (/\ pc.phase = "converged"
     /\ RLt(Zero, RoundTechnologyDemand)
     /\ RLe(Zero, RoundCalOutput)) =>
        /\ REq(RMul(techs[1].share, pc.dmd), RoundCalOutput)
        /\ REq(RoundTechnologyDemand, RoundCalOutput) =>
              techs[1].shrwts = pc.pre.shrwts

\* C20, amended: if adjustForCalibration runs on a technology whose share
\* weight is not negative, with technologyDemand = share * subsectorDemand > 0
\* and a nonnegative calibration target, then the share recomputed by
\* calcShare at unchanged cost and normalised by the same sum gives
\* share * subsectorDemand equal to calOutput, and a technology already on
\* target keeps its share weight unchanged.
C20_OneRoundOnTarget ==
    (/\ pc.phase = "converged"
     /\ RLe(Zero, pc.pre.shrwts)
     /\ RLt(Zero, RoundTechnologyDemand)
     /\ RLe(Zero, RoundCalOutput)) =>
        /\ REq(RMul(techs[1].share, pc.dmd), RoundCalOutput)
        /\ REq(RoundTechnologyDemand, RoundCalOutput) =>
              techs[1].shrwts = pc.pre.shrwts

\* A technology off its positive target was rescaled and the second share
\* pass put its output on the target.
C20_Witness ==
    /\ pc.phase = "converged"
    /\ RLt(Zero, pc.pre.shrwts)
    /\ RLt(Zero, RoundTechnologyDemand)
    /\ RLt(Zero, RoundCalOutput)
    /\ ~REq(RoundTechnologyDemand, RoundCalOutput)
    /\ techs[1].shrwts # pc.pre.shrwts
    /\ REq(RMul(techs[1].share, pc.dmd), RoundCalOutput)

\* A technology on its target went through the round with its weight kept.
OnTargetKeepsWeight ==
    /\ pc.phase = "converged"
    /\ RLt(Zero, RoundCalOutput)
    /\ REq(RoundTechnologyDemand, RoundCalOutput)
    /\ techs[1].shrwts = pc.pre.shrwts

----------------------------------------------------------------------------
(* SpecCalCycle: technology 1 with a calibration value and an efficiency   *)
(* penalty, through the cycle of every period from initCalc to production. *)

\* The efficiency penalties of a technology without and with a capture
\* technology whose penalty exceeds the whole efficiency.
EffPenalties == {Zero, R(2, 1)}

\* The required input of the calibration value is negative.
NegativeCalInput(t) ==
    /\ getCalibrationStatus(t)
    /\ RLt(getCalInput(t.mCalValue, getEfficiency(t)), Zero)

InitCalCycle ==
    /\ \E w \in {Zero, One}, cal \in CalValues, penalty \in EffPenalties :
          LET t == [CalTech(w, Zero, cal) EXCEPT
                       !.lexp = -1,
                       !.mTechData = [@ EXCEPT !.effPenalty = penalty]]
          IN  /\ techs = [k \in Techs |->
                             IF k = 1 THEN t
                             ELSE initElementalMembers(getper_to_yr(0))]
              /\ \E dmd \in Demands :
                    pc = [Idle("initCalc") EXCEPT
                             !.dmd = dmd,
                             !.pre = [ran |-> FALSE, removed |-> FALSE,
                                      mCalValue |-> cal]]
    /\ marketplace = NewMarketplace(R(10, 1))
    /\ log = {}
    /\ calls = <<>>
    /\ last = [op |-> "none", i |-> 0, pre |-> <<>>, args |-> <<>>]

NextCalCycle ==
    \/ /\ At1("initCalc") /\ InitCalc(1)
       /\ pc' = [pc EXCEPT
                    !.phase = "calcCost",
                    !.pre = [@ EXCEPT
                                !.ran = TRUE,
                                !.removed = @ \/ NegativeCalInput(techs[1])]]
    \/ At1("calcCost") /\ CalcCost(1) /\ Goto("calcShare")
    \/ At1("calcShare") /\ CalcShare(1, pc.gdp) /\ Goto("normShare")
    \/ At1("normShare") /\ NormShare(1, techs[1].share) /\ Goto("adjustForCalibration")
    \/ At1("adjustForCalibration") /\ AdjustForCalibration(1, pc.dmd, pc.period)
                                   /\ Goto("production")
    \/ /\ At1("production") /\ Production(1, pc.dmd)
       /\ pc' = IF pc.period < MaxPeriod
                THEN [pc EXCEPT !.phase = "initCalc", !.period = @ + 1]
                ELSE [pc EXCEPT !.phase = "done"]

SpecCalCycle == InitCalCycle /\ [][NextCalCycle]_vars

\* C21: if at initCalc the calibration value implies a negative required
\* input at the effective efficiency, it is removed, and from then on
\* getCalibrationStatus is false and getCalibrationInput and
\* getCalibrationOutput return 0 in every period; a calibration value that
\* implies a nonnegative input is kept.
C21_NegativeCalibrationRemoved ==
    pc.pre.ran =>
        IF pc.pre.removed
        THEN /\ ~getCalibrationStatus(techs[1])
             /\ \A p \in Periods :
                   /\ getCalibrationInput(techs[1], p) = Zero
                   /\ getCalibrationOutput(techs[1], p) = Zero
        ELSE techs[1].mCalValue = pc.pre.mCalValue

\* A positive calibrated output at a negative effective efficiency was
\* removed at the first initCalc and is still absent after the production of
\* the last period.
C21_Witness ==
    /\ pc.phase = "done"
    /\ pc.pre.removed
    /\ pc.pre.mCalValue = [kind |-> "output", value |-> R(30, 1)]
    /\ ~getCalibrationStatus(techs[1])

\* A calibration value with a nonnegative input went through every period.
CalibrationKept ==
    /\ pc.phase = "done"
    /\ ~pc.pre.removed
    /\ pc.pre.mCalValue # NoCal
    /\ techs[1].mCalValue = pc.pre.mCalValue

----------------------------------------------------------------------------
(* SpecTabulate: the technologies of a sector, some of them consuming the  *)
(* fuel "coal", tabulate their fixed demands once each in a period, in any *)
(* order.  Only "coal" has a market.                                       *)

\* Completed technologies: calibrated, with a fixed output, with a zero share
\* weight, or free to vary their output.
TabulateConfigs ==
    { completeInit([initElementalMembers(getper_to_yr(0)) EXCEPT
                       !.mCalValue = cal,
                       !.fixedOutput = fo,
                       !.shrwts = w,
                       !.mTechData = [@ EXCEPT !.fuelName = f,
                                               !.efficiency = R(1, 4)]]) :
      cal \in {NoCal, [kind |-> "input", value |-> R(30, 1)]},
      fo \in {getFixedOutputDefault, R(50, 1)},
      w \in {Zero, One},
      f \in {"coal", "renewable"} }

InitTabulate ==
    /\ techs \in [Techs -> TabulateConfigs]
    /\ \E calDemand \in {Zero, R(-1, 1)} :
          marketplace =
              [price |-> [f \in FuelNames |-> R(10, 1)],
               demand |-> [f \in FuelNames |-> Zero],
               info |-> [f \in {"coal"} |->
                            [calDemand |-> calDemand, calFixedDemand |-> Zero]]]
    /\ log = {}
    /\ calls = <<>>
    /\ last = [op |-> "none", i |-> 0, pre |-> <<>>, args |-> <<>>]
    /\ \E period \in Periods :
          pc = [Idle("tabulateFixedDemands") EXCEPT !.period = period, !.pre = {}]

NextTabulate ==
    \E i \in Techs \ pc.pre :
        /\ pc.phase = "tabulateFixedDemands"
        /\ TabulateFixedDemands(i, pc.period)
        /\ pc' = [pc EXCEPT !.pre = @ \cup {i},
                            !.phase = IF pc.pre \cup {i} = Techs THEN "done" ELSE @]

SpecTabulate == InitTabulate /\ [][NextTabulate]_vars

\* C22: when tabulateFixedDemands has been called once for each technology
\* consuming the same fuel market in a period, the calDemand counter does not
\* depend on the order of the calls: it is the sentinel -1 whenever at least
\* one of the technologies is not output-fixed, and the sum of their fixed or
\* calibrated inputs when all of them are output-fixed.
C22_CalDemandOrderFree ==
    LET consumers == {i \in Techs : getFuelName(techs[i]) = "coal"}
        inputOf(i) ==
            IF getCalibrationStatus(techs[i])
            THEN getCalibrationInput(techs[i], pc.period)
            ELSE IF RLe(Zero, techs[i].fixedOutput)
            THEN getFixedInput(techs[i], pc.period)
            ELSE Zero
    IN  (pc.phase = "done" /\ consumers # {}) =>
            marketplace.info["coal"].calDemand =
                IF \E i \in consumers : ~outputFixed(techs[i])
                THEN R(-1, 1)
                ELSE RSum([k \in 1..NumTechs |->
                              IF k \in consumers THEN inputOf(k) ELSE Zero])

----------------------------------------------------------------------------
(* SpecAdjust: a subsector of completed technologies, with and without     *)
(* fixed output, under any sequence of at most MaxCalls calls of           *)
(* resetFixedOutput, scaleFixedOutput with a ratio in 0..1 and adjShares   *)
(* with the subsector's own totals.                                        *)

InitAdjust ==
    /\ techs \in [Techs ->
                     { completeInit([initElementalMembers(getper_to_yr(0)) EXCEPT
                                        !.fixedOutput = fo, !.share = R(1, 2)]) :
                       fo \in {getFixedOutputDefault, R(40, 1), R(50, 1)} }]
    /\ marketplace = NewMarketplace(R(10, 1))
    /\ log = {}
    /\ calls = <<>>
    /\ last = [op |-> "none", i |-> 0, pre |-> <<>>, args |-> <<>>]
    /\ \E dmd \in Demands : pc = [Idle("calls") EXCEPT !.pre = 0, !.dmd = dmd]

NextAdjust ==
    \E i \in Techs :
        \/ Call /\ ResetFixedOutput(i)
        \/ Call /\ \E scaleRatio \in {Zero, R(1, 2), One} : ScaleFixedOutput(i, scaleRatio)
        \/ Call /\ AdjShares(i, pc.dmd, TotalFixed(techs), VarShareTot(techs))

SpecAdjust == InitAdjust /\ [][NextAdjust]_vars

\* C23: adjShares never increases a technology's working fixed-output value:
\* after the call fixedOutputVal is at most its value before the call, and so
\* it never exceeds the configured fixedOutput when only resetFixedOutput,
\* scaleFixedOutput with a ratio in 0..1 and adjShares have been applied, also
\* in a subsector with several fixed-output technologies.
C23_AdjSharesNeverRaisesFixedOutput ==
    /\ last.op = "adjShares" =>
          RLe(techs[last.i].fixedOutputVal, last.pre.fixedOutputVal)
    /\ \A i \in Techs : RLe(techs[i].fixedOutputVal, techs[i].fixedOutput)

====
